---- MODULE Spec2Model ----
(***************************************************************************)
(* Model of the banking recommendation pipeline:                           *)
(*   - classify_product.py: ClientAnalyzer, ProductRecommendationEngine,   *)
(*     BankingRecommendationAPI and the batch of main();                   *)
(*   - azure_notification_generator.py: the notification batch of          *)
(*     __main__ / generate_all_notifications.                              *)
(*                                                                         *)
(* Specifications: Spec (the batch of main()), NotifySpec (the            *)
(* notification batch), ExtractSpec (the extractor on one record), ApiSpec *)
(* (the API object called method by method) and PipelineSpec (the two      *)
(* programs one after the other).                                          *)
(*                                                                         *)
(* Conventions.  Product and category names are transliterated to ASCII.   *)
(* Scores are hundredths (0.9 is 90, threshold 0.4 is 40).  A Python dict  *)
(* is a sequence of [k, v] records with distinct keys, in insertion order. *)
(* A JSON / Python value is a record [t, v]: t = "num" carries the number  *)
(* v, t = "str" is a non-numeric string.                                   *)
(***************************************************************************)
EXTENDS Integers, Sequences, FiniteSets, TLC

VARIABLES
    \* ---- classify_product.py ----
    clients_df,        \* ClientAnalyzer.clients_df: rows [client_code, avg_monthly_balance_KZT]
    transactions_df,   \* rows [client_code, category, currency, amount]
    transfers_df,      \* rows [client_code, type, currency, amount]
    llm,               \* ProductRecommendationEngine.llm is configured (not None)
    analyzer,          \* BankingRecommendationAPI.analyzer is set (load_data was called)
    pc,                \* position of main()
    client_code,       \* loop variable of main()
    profile,           \* profile of the get_recommendations call in progress / last made
    llmOutcome,        \* how the LLM strategy of the last classify_client call ended
    response,          \* response.content of the last llm.invoke that answered
    recommendations,   \* value returned by the last classify_client call
    results,           \* results list of main()
    outFile,           \* content of product_classification.json
    hashseed,          \* string-hash seed of the interpreter process, as the order
                       \* in which a set of currency codes iterates
    loaded,            \* the files read by the most recent load_data call
    llm_calls,         \* llm.invoke calls made by the classify_client call in
                       \* progress / last made
    \* ---- azure_notification_generator.py ----
    clients_data,      \* records loaded from product_classification.json
    azureAvailable,    \* get_azure_llm() finds its environment variables
    npc,               \* position of __main__
    use_azure,         \* use_azure argument of the running generate_all_notifications
    idx,               \* enumerate index of generate_all_notifications
    nresults,          \* results list of the running generate_all_notifications
    csvRows,           \* rows of banking_notifications.csv (after the header)
    csvOpens,          \* how many times the output file was opened for writing
    processed,         \* per client: calls of process_single_client
    written,           \* per client: rows written by writer.writerow
    lastError,         \* where the last exception that reached __main__ came from
    product_data       \* product_data of process_single_client: the extractor's result

engineVars == <<clients_df, transactions_df, transfers_df, llm, analyzer, pc,
                client_code, profile, llmOutcome, response, recommendations,
                results, outFile, hashseed, loaded, llm_calls>>
notifyVars == <<clients_data, azureAvailable, npc, use_azure, idx, nresults,
                csvRows, csvOpens, processed, written, lastError, product_data>>
vars == <<engineVars, notifyVars>>

\* ---------------------------------------------------------------------------
\* Bounds
\* ---------------------------------------------------------------------------
BatchSize == 2     \* main() classifies client codes 1..BatchSize (range(1, 61))
MaxEntries == 2    \* entries of the JSON object in an LLM answer
MaxClients == 2    \* records of product_classification.json read by the notifier

\* ---------------------------------------------------------------------------
\* Python values and dicts
\* ---------------------------------------------------------------------------
Num(x) == [t |-> "num", v |-> x]
Str == [t |-> "str", v |-> 0]
IsNum(val) == val.t = "num"

EmptyDict == <<>>
Keys(d) == {d[i].k : i \in 1..Len(d)}
HasKey(d, key) == \E i \in 1..Len(d) : d[i].k = key
Get(d, key) == d[CHOOSE i \in 1..Len(d) : d[i].k = key].v
GetOr(d, key, default) == IF HasKey(d, key) THEN Get(d, key) ELSE default
\* a slip where a key that is present keeps its first value
DictSet_keep_first(d, key, val) ==
    IF HasKey(d, key) THEN d ELSE Append(d, [k |-> key, v |-> val])

\* d[key] = val: overwrite in place, or insert at the end
DictSet(d, key, val) ==
    IF HasKey(d, key)
    THEN [i \in 1..Len(d) |-> IF d[i].k = key THEN [k |-> key, v |-> val] ELSE d[i]]
    ELSE Append(d, [k |-> key, v |-> val])

Max(a, b) == IF a >= b THEN a ELSE b
Min(a, b) == IF a <= b THEN a ELSE b

RECURSIVE SumAmounts(_)
SumAmounts(rows) ==
    IF rows = <<>> THEN 0 ELSE Head(rows).amount + SumAmounts(Tail(rows))

\* ---------------------------------------------------------------------------
\* Product catalog (ProductRecommendationEngine._initialize_products)
\* ---------------------------------------------------------------------------
Products ==
    {"Karta dlya puteshestvii", "Premialnaya karta", "Kreditnaya karta",
     "Obmen valyut", "Kredit nalichnymi", "Depozit Multivalyutnyi",
     "Depozit Sberegatelnyi", "Depozit Nakopitelnyi", "Investitsii",
     "Zolotye slitki"}

\* ---------------------------------------------------------------------------
\* Input tables
\* ---------------------------------------------------------------------------
Balances == {300000, 1500000, 7000000}

\* Spending categories, in the order pandas groupby lists them (sorted keys).
\* "Travel" and "Public transport" are the only names whose lower-cased text
\* contains 'travel' / 'transport'.
CategoryOrder ==
    <<"Avto", "Kafe i restorany", "Oteli", "Produkty pitaniya",
      "Public transport", "Puteshestviya", "Taksi", "Travel">>
TypeOrder == <<"atm_withdrawal", "card_out", "fx_buy", "p2p_out", "salary_in">>

Txn(c, cat, cur, amt) ==
    [client_code |-> c, category |-> cat, currency |-> cur, amount |-> amt]
Trf(c, typ, cur, amt) ==
    [client_code |-> c, type |-> typ, currency |-> cur, amount |-> amt]

\* Event logs the batch is run on: empty logs, a traveller with three
\* currencies next to a one-row client, and a client with six categories
\* next to a client with taxi rides and a travel row of amount 0.
EventLogs ==
    { <<(<< >>), (<< >>)>>,
      << <<Txn(1, "Taksi", "KZT", 150000), Txn(1, "Travel", "USD", 700000),
           Txn(2, "Produkty pitaniya", "KZT", 50000), Txn(1, "Oteli", "EUR", 100000)>>,
         <<Trf(1, "salary_in", "KZT", 500000), Trf(2, "fx_buy", "USD", 1200000)>> >>,
      << <<Txn(2, "Avto", "KZT", 100000), Txn(2, "Kafe i restorany", "KZT", 200000),
           Txn(2, "Oteli", "KZT", 300000), Txn(2, "Produkty pitaniya", "KZT", 400000),
           Txn(2, "Puteshestviya", "KZT", 500000), Txn(2, "Taksi", "KZT", 600000),
           Txn(1, "Taksi", "KZT", 150000), Txn(1, "Puteshestviya", "KZT", 0)>>,
         <<Trf(1, "p2p_out", "KZT", 200000)>> >> }

\* clients.csv: the codes of 'present', in order, with balance bal[c]
ClientTable(present, bal) ==
    SelectSeq([c \in 1..BatchSize |->
                  [client_code |-> c, avg_monthly_balance_KZT |-> bal[c]]],
              LAMBDA r : r.client_code \in present)
ClientTables ==
    {ClientTable(S, b) : S \in SUBSET (1..BatchSize), b \in [1..BatchSize -> Balances]}

\* ---------------------------------------------------------------------------
\* ClientAnalyzer
\* ---------------------------------------------------------------------------
\* a slip where the selection by client_code is missing
RowsOf_all(df, c) == df

\* df[df['client_code'] == client_code]
RowsOf(df, c) == SelectSeq(df, LAMBDA r : r.client_code = c)

get_category_spending(txns, c) ==
    LET client_transactions == RowsOf(txns, c)
        cats == SelectSeq(CategoryOrder, LAMBDA g :
                    \E i \in 1..Len(client_transactions) :
                        client_transactions[i].category = g)
    IN  IF client_transactions = <<>> THEN EmptyDict
        ELSE [i \in 1..Len(cats) |->
                [k |-> cats[i],
                 v |-> SumAmounts(SelectSeq(client_transactions,
                                            LAMBDA r : r.category = cats[i]))]]

get_type_spending(trfs, c) ==
    LET client_transfers == RowsOf(trfs, c)
        types == SelectSeq(TypeOrder, LAMBDA g :
                    \E i \in 1..Len(client_transfers) : client_transfers[i].type = g)
    IN  IF client_transfers = <<>> THEN EmptyDict
        ELSE [i \in 1..Len(types) |->
                [k |-> types[i],
                 v |-> SumAmounts(SelectSeq(client_transfers,
                                            LAMBDA r : r.type = types[i]))]]

\* The currency codes of the tables.  A set of strings iterates in the
\* order of the hashes of its members, which the interpreter draws from a
\* seed chosen anew at every start of the process (hash randomization): a
\* seed is represented by the order it gives to the codes.
Currencies == {"KZT", "USD", "EUR"}
HashSeeds ==
    {<<"KZT", "USD", "EUR">>, <<"USD", "KZT", "EUR">>, <<"EUR", "USD", "KZT">>}

\* list(set(transactions_currencies + transfers_currencies)): the distinct
\* currencies of both logs, in the iteration order of the set
get_currencies_used(txns, trfs, c) ==
    LET all_currencies ==
            {RowsOf(txns, c)[i].currency : i \in 1..Len(RowsOf(txns, c))}
                \cup {RowsOf(trfs, c)[i].currency : i \in 1..Len(RowsOf(trfs, c))}
    IN  SelectSeq(hashseed, LAMBDA cur : cur \in all_currencies)

get_avg_monthly_balance(clients, c) == RowsOf(clients, c)[1].avg_monthly_balance_KZT

\* {} for a client without transactions, else the totals the scorer reads
analyze_spending_patterns(txns, c) ==
    LET client_transactions == RowsOf(txns, c)
    IN  IF client_transactions = <<>>
        THEN [present |-> FALSE, total_spending |-> 0, category_diversity |-> 0]
        ELSE [present |-> TRUE,
              total_spending |-> SumAmounts(client_transactions),
              category_diversity |->
                  Cardinality({client_transactions[i].category :
                                  i \in 1..Len(client_transactions)})]

ErrorProfile == [error |-> TRUE]

\* a slip where the emptiness test of client_info is missing and a profile
\* with balance 0 is built for an unknown client
get_comprehensive_client_profile_unchecked(clients, txns, trfs, c) ==
    LET client_info == RowsOf(clients, c)
    IN  [error |-> FALSE,
         client_info |-> IF client_info = <<>>
                         THEN [client_code |-> c, avg_monthly_balance_KZT |-> 0]
                         ELSE client_info[1],
         category_spending |-> get_category_spending(txns, c),
         type_spending |-> get_type_spending(trfs, c),
         currencies_used |-> get_currencies_used(txns, trfs, c),
         avg_monthly_balance_KZT |->
             IF client_info = <<>> THEN 0 ELSE get_avg_monthly_balance(clients, c),
         spending_patterns |-> analyze_spending_patterns(txns, c)]

get_comprehensive_client_profile(clients, txns, trfs, c) ==
    LET client_info == RowsOf(clients, c)
    IN  IF client_info = <<>> THEN ErrorProfile
        ELSE [error |-> FALSE,
              client_info |-> client_info[1],
              category_spending |-> get_category_spending(txns, c),
              type_spending |-> get_type_spending(trfs, c),
              currencies_used |-> get_currencies_used(txns, trfs, c),
              avg_monthly_balance_KZT |-> get_avg_monthly_balance(clients, c),
              spending_patterns |-> analyze_spending_patterns(txns, c)]

\* ---------------------------------------------------------------------------
\* ProductRecommendationEngine
\* ---------------------------------------------------------------------------
\* a slip where the test also matches the Russian category name
MentionsTravel_any_language(categories) ==
    \E key \in Keys(categories) : key \in {"Travel", "Puteshestviya"}

\* 'travel' in str(categories).lower() / 'transport' in str(categories).lower()
MentionsTravel(categories) ==
    \E key \in Keys(categories) : key \in {"Travel"}
MentionsTransport(categories) ==
    \E key \in Keys(categories) : key \in {"Public transport"}

\* patterns.get(key, 0)
PatternGet(patterns, key) ==
    IF ~patterns.present THEN 0
    ELSE IF key = "category_diversity" THEN patterns.category_diversity
    ELSE patterns.total_spending

\* a slip where the band 1,000,000 < balance <= 6,000,000 is missing
rule_based_classification_high_band_only(client_profile) ==
    LET balance == client_profile.avg_monthly_balance_KZT
        currencies == client_profile.currencies_used
        categories == client_profile.category_spending
        patterns == client_profile.spending_patterns
        r1 == IF balance > 6000000
              THEN DictSet(DictSet(EmptyDict, "Premialnaya karta", Num(90)),
                           "Depozit Sberegatelnyi", Num(80))
              ELSE EmptyDict
        r2 == IF Len(currencies) > 2
              THEN DictSet(DictSet(r1, "Obmen valyut", Num(85)),
                           "Depozit Multivalyutnyi", Num(80))
              ELSE r1
        r3 == IF MentionsTravel(categories) \/ MentionsTransport(categories)
              THEN DictSet(r2, "Karta dlya puteshestvii", Num(85))
              ELSE r2
        r4 == IF PatternGet(patterns, "category_diversity") > 5
              THEN DictSet(r3, "Kreditnaya karta", Num(70))
              ELSE r3
        r5 == IF balance < 500000 /\ PatternGet(patterns, "total_spending") > balance * 2
              THEN DictSet(DictSet(r4, "Kredit nalichnymi", Num(60)),
                           "Kreditnaya karta", Num(75))
              ELSE r4
        r6 == IF balance > 2000000
              THEN DictSet(DictSet(r5, "Investitsii", Num(70)),
                           "Zolotye slitki", Num(60))
              ELSE r5
    IN  r6

\* a slip where the scorer reads engine state: it answers only the first
\* request of a batch
rule_based_classification_first_request_only(client_profile) ==
    LET balance == client_profile.avg_monthly_balance_KZT
        currencies == client_profile.currencies_used
        categories == client_profile.category_spending
        patterns == client_profile.spending_patterns
        \* High balance products
        r1 == IF balance > 6000000
              THEN DictSet(DictSet(EmptyDict, "Premialnaya karta", Num(90)),
                           "Depozit Sberegatelnyi", Num(80))
              ELSE IF balance > 1000000
              THEN DictSet(DictSet(EmptyDict, "Premialnaya karta", Num(70)),
                           "Depozit Nakopitelnyi", Num(75))
              ELSE EmptyDict
        \* Multi-currency users
        r2 == IF Len(currencies) > 2
              THEN DictSet(DictSet(r1, "Obmen valyut", Num(85)),
                           "Depozit Multivalyutnyi", Num(80))
              ELSE r1
        \* Travel spending
        r3 == IF MentionsTravel(categories) \/ MentionsTransport(categories)
              THEN DictSet(r2, "Karta dlya puteshestvii", Num(85))
              ELSE r2
        \* High transaction diversity
        r4 == IF PatternGet(patterns, "category_diversity") > 5
              THEN DictSet(r3, "Kreditnaya karta", Num(70))
              ELSE r3
        \* Low balance but active
        r5 == IF balance < 500000 /\ PatternGet(patterns, "total_spending") > balance * 2
              THEN DictSet(DictSet(r4, "Kredit nalichnymi", Num(60)),
                           "Kreditnaya karta", Num(75))
              ELSE r4
        \* Investment potential
        r6 == IF balance > 2000000
              THEN DictSet(DictSet(r5, "Investitsii", Num(70)),
                           "Zolotye slitki", Num(60))
              ELSE r5
    IN  IF results # <<>> THEN EmptyDict ELSE r6

rule_based_classification(client_profile) ==
    LET balance == client_profile.avg_monthly_balance_KZT
        currencies == client_profile.currencies_used
        categories == client_profile.category_spending
        patterns == client_profile.spending_patterns
        \* High balance products
        r1 == IF balance > 6000000
              THEN DictSet(DictSet(EmptyDict, "Premialnaya karta", Num(90)),
                           "Depozit Sberegatelnyi", Num(80))
              ELSE IF balance > 1000000
              THEN DictSet(DictSet(EmptyDict, "Premialnaya karta", Num(70)),
                           "Depozit Nakopitelnyi", Num(75))
              ELSE EmptyDict
        \* Multi-currency users
        r2 == IF Len(currencies) > 2
              THEN DictSet(DictSet(r1, "Obmen valyut", Num(85)),
                           "Depozit Multivalyutnyi", Num(80))
              ELSE r1
        \* Travel spending
        r3 == IF MentionsTravel(categories) \/ MentionsTransport(categories)
              THEN DictSet(r2, "Karta dlya puteshestvii", Num(85))
              ELSE r2
        \* High transaction diversity
        r4 == IF PatternGet(patterns, "category_diversity") > 5
              THEN DictSet(r3, "Kreditnaya karta", Num(70))
              ELSE r3
        \* Low balance but active
        r5 == IF balance < 500000 /\ PatternGet(patterns, "total_spending") > balance * 2
              THEN DictSet(DictSet(r4, "Kredit nalichnymi", Num(60)),
                           "Kreditnaya karta", Num(75))
              ELSE r4
        \* Investment potential
        r6 == IF balance > 2000000
              THEN DictSet(DictSet(r5, "Investitsii", Num(70)),
                           "Zolotye slitki", Num(60))
              ELSE r5
    IN  r6

\* ---- the text of an LLM answer ----
\* response.content is a sequence of tokens: free text without braces, an
\* opening brace, a closing brace, or one "key": value member of an object.
TextTok == [kind |-> "text", key |-> "", val |-> Str]
OpenTok == [kind |-> "{", key |-> "", val |-> Str]
CloseTok == [kind |-> "}", key |-> "", val |-> Str]
Entry(key, val) == [kind |-> "entry", key |-> key, val |-> val]

Positions(text, kind) == {i \in 1..Len(text) : text[i].kind = kind}
SetMin(S) == CHOOSE x \in S : \A y \in S : x <= y
SetMax(S) == CHOOSE x \in S : \A y \in S : x >= y

\* re.search(r'\{.*\}', response_text, re.DOTALL): from the first opening
\* brace to the last closing brace after it (greedy), or no match
HasJsonMatch(text) ==
    \E i \in Positions(text, "{") : \E j \in Positions(text, "}") : i < j
JsonMatch(text) ==
    SubSeq(text, SetMin(Positions(text, "{")), SetMax(Positions(text, "}")))

\* json.loads of the matched text succeeds when only members lie between
\* the outer braces; a repeated key keeps its place and takes the last value
JsonValid(matched) ==
    \A i \in 2..(Len(matched) - 1) : matched[i].kind = "entry"
RECURSIVE LoadMembers(_, _)
LoadMembers(members, d) ==
    IF members = <<>> THEN d
    ELSE LoadMembers(Tail(members), DictSet(d, Head(members).key, Head(members).val))
JsonLoads(matched) == LoadMembers(SubSeq(matched, 2, Len(matched) - 1), EmptyDict)

\* max(0, min(1, float(x)))
Clamp01(val) == Num(Max(0, Min(100, val.v)))

\* the loop 'for product in recommendations': float() raises on a catalog
\* product whose value is no number
RECURSIVE NormalizeScores(_, _)
NormalizeScores(recs, i) ==
    IF i > Len(recs) THEN [raised |-> FALSE, recs |-> recs]
    ELSE IF recs[i].k \in Products
         THEN IF IsNum(recs[i].v)
              THEN NormalizeScores(DictSet(recs, recs[i].k, Clamp01(recs[i].v)), i + 1)
              ELSE [raised |-> TRUE, recs |-> recs]
         ELSE NormalizeScores(recs, i + 1)

\* a slip where the failure of one float() is swallowed inside the loop and
\* the partly normalised object is returned
parse_recommendations_keep_partial(response_text) ==
    IF ~HasJsonMatch(response_text) THEN EmptyDict
    ELSE IF ~JsonValid(JsonMatch(response_text)) THEN EmptyDict
    ELSE NormalizeScores(JsonLoads(JsonMatch(response_text)), 1).recs

parse_recommendations(response_text) ==
    IF ~HasJsonMatch(response_text) THEN EmptyDict
    ELSE IF ~JsonValid(JsonMatch(response_text)) THEN EmptyDict
    ELSE LET n == NormalizeScores(JsonLoads(JsonMatch(response_text)), 1)
         IN  IF n.raised THEN EmptyDict ELSE n.recs

\* the answer gives no JSON object with numeric catalog scores: no braces,
\* invalid JSON, or a non-numeric score of a catalog product
Unparseable(response_text) ==
    \/ ~HasJsonMatch(response_text)
    \/ ~JsonValid(JsonMatch(response_text))
    \/ NormalizeScores(JsonLoads(JsonMatch(response_text)), 1).raised

\* How llm.invoke ends: the engine has no client, the call raises, or it
\* returns content.
Unconfigured == [kind |-> "unconfigured", text |-> <<>>]
Raises == [kind |-> "raised", text |-> <<>>]
Answers(text) == [kind |-> "answered", text |-> text]

\* a slip where a call that raised is sent once more before the fallback
llm_invocations_with_retry(outcome) ==
    IF outcome.kind = "unconfigured" THEN 0
    ELSE IF outcome.kind = "raised" THEN 2
    ELSE 1

\* how many times classify_client has called self.llm.invoke when its try
\* block ends: the RuntimeError of a missing client is raised before the
\* call, and the except branch goes to the fallback without another call
llm_invocations(outcome) == IF outcome.kind = "unconfigured" THEN 0 ELSE 1

\* a slip where the except branch returns an empty mapping
classify_client_no_fallback(client_profile, outcome) ==
    IF outcome.kind \in {"unconfigured", "raised"}
    THEN EmptyDict
    ELSE parse_recommendations(outcome.text)

\* classify_client: the value returned for each way the try block ends
classify_client(client_profile, outcome) ==
    IF outcome.kind \in {"unconfigured", "raised"}
    THEN rule_based_classification(client_profile)
    ELSE parse_recommendations(outcome.text)

\* ---- what the text-generation collaborator may answer ----
\* one catalog product with a score below 0, above 1 and no number, a
\* second catalog product with a score equal to the threshold of main(), and
\* a name outside the
\* catalog with a score above 1 and no number
Members ==
    {Entry("Premialnaya karta", Num(-50)), Entry("Premialnaya karta", Num(150)),
     Entry("Premialnaya karta", Str), Entry("Investitsii", Num(40)),
     Entry("Ipoteka", Num(150)), Entry("Ipoteka", Str)}
ObjectTexts ==
    {<<OpenTok>> \o m \o <<CloseTok>> :
        m \in UNION {[1..n -> Members] : n \in 0..MaxEntries}}
FencedTexts == {<<TextTok>> \o o \o <<TextTok>> : o \in ObjectTexts}
BrokenTexts ==
    {<< >>, <<TextTok>>, <<OpenTok>>, <<CloseTok, OpenTok>>,
     <<OpenTok, TextTok, CloseTok>>,
     <<OpenTok, Entry("Investitsii", Num(40)), CloseTok, TextTok,
       OpenTok, Entry("Premialnaya karta", Num(150)), CloseTok>>}
ResponseTexts == ObjectTexts \cup FencedTexts \cup BrokenTexts

\* ---------------------------------------------------------------------------
\* BankingRecommendationAPI.get_recommendations
\* ---------------------------------------------------------------------------
\* a slip where reverse=True is missing: ascending
RECURSIVE SortedAsc(_)
SortedAsc(d) ==
    IF d = <<>> THEN <<>>
    ELSE LET m == SetMin({i \in 1..Len(d) : \A j \in 1..Len(d) : d[j].v >= d[i].v})
         IN  <<d[m]>> \o SortedAsc(SubSeq(d, 1, m - 1) \o SubSeq(d, m + 1, Len(d)))

\* sorted(items, key=value, reverse=True): descending, equal values keep
\* their order
RECURSIVE SortedDesc(_)
SortedDesc(d) ==
    IF d = <<>> THEN <<>>
    ELSE LET m == SetMin({i \in 1..Len(d) : \A j \in 1..Len(d) : d[j].v <= d[i].v})
         IN  <<d[m]>> \o SortedDesc(SubSeq(d, 1, m - 1) \o SubSeq(d, m + 1, Len(d)))

\* 'score >= threshold' raises TypeError on a score that is no number
SelectorRaises(recs) == \E i \in 1..Len(recs) : ~IsNum(recs[i].v)

ScoresOf(recs) == [i \in 1..Len(recs) |-> [k |-> recs[i].k, v |-> recs[i].v.v]]

\* get_recommendations(client_code, threshold=0.5)
DefaultThreshold == 50

\* a slip where the last product of the sorted mapping is taken
select_product_type_last(recs, threshold) ==
    LET filtered_recommendations ==
            SelectSeq(ScoresOf(recs), LAMBDA e : e.v >= threshold)
        sorted_recommendations == SortedDesc(filtered_recommendations)
    IN  IF sorted_recommendations # <<>>
        THEN sorted_recommendations[Len(sorted_recommendations)].k
        ELSE IF recs # <<>> THEN SortedDesc(ScoresOf(recs))[1].k
        ELSE ""

\* a slip where nothing at or above the threshold gives "" at once
select_product_type_no_argmax(recs, threshold) ==
    LET filtered_recommendations ==
            SelectSeq(ScoresOf(recs), LAMBDA e : e.v >= threshold)
        sorted_recommendations == SortedDesc(filtered_recommendations)
    IN  IF sorted_recommendations # <<>> THEN sorted_recommendations[1].k
        ELSE ""

\* filter by threshold, sort by score, take the first; with nothing at or
\* above the threshold the key of the maximal score; "" for no scores
select_product_type(recs, threshold) ==
    LET filtered_recommendations ==
            SelectSeq(ScoresOf(recs), LAMBDA e : e.v >= threshold)
        sorted_recommendations == SortedDesc(filtered_recommendations)
    IN  IF sorted_recommendations # <<>> THEN sorted_recommendations[1].k
        ELSE IF recs # <<>> THEN SortedDesc(ScoresOf(recs))[1].k
        ELSE ""

\* a slip where the entries are not sorted before the cut
Top5_unsorted(spending) == SubSeq(spending, 1, Min(5, Len(spending)))

\* the five largest entries, descending (amounts are whole KZT, so
\* int(round(v)) changes nothing)
Top5(spending) == SubSeq(SortedDesc(spending), 1, Min(5, Len(spending)))

get_recommendations(client_profile, recs, threshold) ==
    [product_type |-> select_product_type(recs, threshold),
     top_5_category_spending |-> Top5(client_profile.category_spending),
     top_5_type_spending |-> Top5(client_profile.type_spending),
     avg_monthly_balance |-> client_profile.avg_monthly_balance_KZT]

\* ---------------------------------------------------------------------------
\* main() of classify_product.py
\* ---------------------------------------------------------------------------
MainThreshold == 40

\* {"client_code": client_code, **res}
MainRecord(c, res) ==
    [client_code |-> c,
     product_type |-> res.product_type,
     top_5_category_spending |-> res.top_5_category_spending,
     top_5_type_spending |-> res.top_5_type_spending,
     avg_monthly_balance |-> res.avg_monthly_balance]

\* a slip where the list is rebuilt from the new record alone
append_result_replacing(list, c, res) == <<MainRecord(c, res)>>

\* results.append({"client_code": client_code, **res})
append_result(list, c, res) == Append(list, MainRecord(c, res))

CurrentProfile ==
    get_comprehensive_client_profile(clients_df, transactions_df, transfers_df,
                                     client_code)

tableVars == <<clients_df, transactions_df, transfers_df, hashseed, loaded>>

\* The three CSV files a load_data call may be pointed at
CsvFiles == {<<ct, logs[1], logs[2]>> : ct \in ClientTables, logs \in EventLogs}
NoFiles == <<>>

\* a slip where an analyzer that exists is kept (if self.analyzer is None)
load_data_tables_once(files) ==
    IF analyzer THEN <<clients_df, transactions_df, transfers_df>> ELSE files

\* the tables of the analyzer after load_data: pd.read_csv of the three
\* paths, handed to a new ClientAnalyzer that replaces self.analyzer
load_data_tables(files) == files

\* BankingRecommendationAPI.load_data(clients_path, transactions_path,
\* transfers_path)
LoadData(files) ==
    /\ analyzer' = TRUE
    /\ clients_df' = load_data_tables(files)[1]
    /\ transactions_df' = load_data_tables(files)[2]
    /\ transfers_df' = load_data_tables(files)[3]
    /\ loaded' = files
    /\ UNCHANGED <<llm, hashseed>>

\* api.load_data(...) of main()
load_data ==
    /\ pc = "start"
    /\ \E files \in CsvFiles : LoadData(files)
    /\ pc' = "loop"
    /\ UNCHANGED <<client_code, profile, llmOutcome, response, recommendations,
                   results, outFile, llm_calls>>
    /\ UNCHANGED notifyVars

\* classify_client has returned: the rest of get_recommendations and of the
\* loop body.  A score that is no number makes the threshold filter raise,
\* which nothing in main() catches.
ReturnToMain(client_profile, outcome) ==
    LET recs == classify_client(client_profile, outcome)
    IN  /\ profile' = client_profile
        /\ llmOutcome' = outcome.kind
        /\ response' = outcome.text
        /\ recommendations' = recs
        /\ llm_calls' = llm_invocations(outcome)
        /\ IF SelectorRaises(recs)
           THEN /\ pc' = "crashed"
                /\ UNCHANGED <<client_code, results>>
           ELSE /\ pc' = "loop"
                /\ results' = append_result(results, client_code,
                       get_recommendations(client_profile, recs, MainThreshold))
                /\ client_code' = client_code + 1
        /\ UNCHANGED <<tableVars, llm, analyzer, outFile>>
        /\ UNCHANGED notifyVars

\* get_recommendations returns {"error": "Client not found"}: main() logs
\* "Skipping" and continues with the next code
SkipUnknownClient ==
    /\ pc = "loop"
    /\ client_code <= BatchSize
    /\ CurrentProfile.error
    /\ profile' = ErrorProfile
    /\ llmOutcome' = "none"
    /\ response' = <<>>
    /\ recommendations' = EmptyDict
    /\ llm_calls' = 0
    /\ client_code' = client_code + 1
    /\ UNCHANGED <<tableVars, llm, analyzer, pc, results, outFile>>
    /\ UNCHANGED notifyVars

\* self.llm is None: RuntimeError inside the try block, caught at once
ClassifyUnconfigured ==
    /\ pc = "loop"
    /\ client_code <= BatchSize
    /\ ~CurrentProfile.error
    /\ ~llm
    /\ ReturnToMain(CurrentProfile, Unconfigured)

\* self.llm.invoke([...]) is sent; no timeout is configured on the client
InvokeLLM ==
    /\ pc = "loop"
    /\ client_code <= BatchSize
    /\ ~CurrentProfile.error
    /\ llm
    /\ pc' = "awaiting"
    /\ profile' = CurrentProfile
    /\ llmOutcome' = "none"
    /\ response' = <<>>
    /\ recommendations' = EmptyDict
    /\ llm_calls' = 1
    /\ UNCHANGED <<tableVars, llm, analyzer, client_code, results, outFile>>
    /\ UNCHANGED notifyVars

\* the call raises (network error, rate limit, ...)
LLMRaise ==
    /\ pc = "awaiting"
    /\ ReturnToMain(profile, Raises)

\* the call returns content
LLMRespond ==
    /\ pc = "awaiting"
    /\ \E text \in ResponseTexts : ReturnToMain(profile, Answers(text))

\* json.dump(results, f)
WriteOutput ==
    /\ pc = "loop"
    /\ client_code > BatchSize
    /\ outFile' = results
    /\ pc' = "done"
    /\ UNCHANGED <<tableVars, llm, analyzer, client_code, profile, llmOutcome,
                   response, recommendations, results, llm_calls>>
    /\ UNCHANGED notifyVars

InitEngine ==
    /\ clients_df = <<>>
    /\ transactions_df = <<>>
    /\ transfers_df = <<>>
    \* the batch reads only the number of currencies of a profile: its runs
    \* are explored under one seed, ApiSpec draws the seed from HashSeeds
    /\ hashseed = <<"KZT", "USD", "EUR">>
    /\ loaded = NoFiles
    /\ llm_calls = 0
    /\ llm \in BOOLEAN
    /\ analyzer = FALSE
    /\ pc = "start"
    /\ client_code = 1
    /\ profile = ErrorProfile
    /\ llmOutcome = "none"
    /\ response = <<>>
    /\ recommendations = EmptyDict
    /\ results = <<>>
    /\ outFile = <<>>

\* the notifier is not running
NotifyIdle ==
    /\ clients_data = <<>>
    /\ azureAvailable = FALSE
    /\ npc = "idle"
    /\ use_azure = FALSE
    /\ idx = 0
    /\ nresults = <<>>
    /\ csvRows = <<>>
    /\ csvOpens = 0
    /\ processed = <<>>
    /\ written = <<>>
    /\ lastError = "none"
    /\ product_data = <<>>

\* the steps main() takes by itself; LLMRaise and LLMRespond are the
\* collaborator's
MainStep ==
    load_data \/ SkipUnknownClient \/ ClassifyUnconfigured \/ InvokeLLM \/ WriteOutput

Init == InitEngine /\ NotifyIdle
Next ==
    \/ load_data
    \/ SkipUnknownClient
    \/ ClassifyUnconfigured
    \/ InvokeLLM
    \/ LLMRaise
    \/ LLMRespond
    \/ WriteOutput
Spec == Init /\ [][Next]_vars

\* ---------------------------------------------------------------------------
\* azure_notification_generator.py
\* ---------------------------------------------------------------------------
\* A record of product_classification.json is the set of the keys it has,
\* with its client_code and product_type when present.  Only the presence of
\* the other values matters to the control flow.
InputFields ==
    {"client_code", "name", "status", "age", "city", "avg_monthly_balance",
     "product_type", "top_5_category_spending", "top_5_type_spending"}
InputRecord(c, p, missing) ==
    [present |-> InputFields \ missing, client_code |-> c, product_type |-> p]
\* the records a file may hold for its i-th client
InputRecords(i) ==
    {InputRecord(i, "Karta dlya puteshestvii", {}),
     InputRecord(i, "Depozit Nakopitelnyi", {}),
     InputRecord(i, "Karta dlya puteshestvii", {"name"}),
     InputRecord(i, "Karta dlya puteshestvii", {"status"}),
     InputRecord(i, "", {"product_type"})}
InputFiles ==
    UNION {{f \in [1..n -> UNION {InputRecords(i) : i \in 1..n}] :
                \A i \in 1..n : f[i] \in InputRecords(i)} : n \in 0..MaxClients}

\* a slip where the product name is passed on as it is
normalize_product_name_identity(product_type) == product_type

\* a slip where two rows of the mapping are crossed
normalize_product_name_crossed(product_type) ==
    IF product_type = "Depozit Multivalyutnyi" THEN "Depozit multivalyutnyi"
    ELSE IF product_type = "Depozit Sberegatelnyi" THEN "Depozit nakopitelnyi"
    ELSE IF product_type = "Depozit Nakopitelnyi" THEN "Depozit sberegatelnyi"
    ELSE product_type

\* product_mapping.get(product_type, product_type)
normalize_product_name(product_type) ==
    IF product_type = "Depozit Multivalyutnyi" THEN "Depozit multivalyutnyi"
    ELSE IF product_type = "Depozit Sberegatelnyi" THEN "Depozit sberegatelnyi"
    ELSE IF product_type = "Depozit Nakopitelnyi" THEN "Depozit nakopitelnyi"
    ELSE product_type

\* A value a record of the result list can be: a dict with the keys 'keys'
\* (a field whose key is absent holds its default), or another JSON value.
OutputFields == {"client_code", "product", "push_notification"}
Dict(keys, c, p, text) ==
    [isDict |-> TRUE, keys |-> keys, client_code |-> c, product |-> p,
     push_notification |-> text]
NotADict ==
    [isDict |-> FALSE, keys |-> {}, client_code |-> 0, product |-> "",
     push_notification |-> ""]

\* the two error texts: generate_notification's, and process_single_client's
\* ("... dlya {product_type}")
ErrorText == "Oshibka generatsii uvedomleniya"
ErrorTextFor == "Oshibka generatsii uvedomleniya dlya product_type"
IsErrorPlaceholder(text) == text \in {ErrorText, ErrorTextFor}

\* extract_product_specific_data raises KeyError unless these are present
ExtractFields ==
    {"client_code", "name", "status", "age", "city", "avg_monthly_balance",
     "top_5_category_spending", "top_5_type_spending"}
\* the template branch of process_single_client reads these
TemplateFields ==
    {"name", "age", "status", "top_5_category_spending", "top_5_type_spending",
     "client_code"}

\* except branches of generate_notification
generate_notification_error(product_name, c) ==
    Dict(OutputFields, c, product_name, ErrorText)
\* except branch of process_single_client
process_single_client_error(client) ==
    Dict(OutputFields, client.client_code, client.product_type, ErrorTextFor)

\* ---- the text of the notification LLM's answer ----
FenceJson == [kind |-> "fence_json", value |-> NotADict]
Fence == [kind |-> "fence", value |-> NotADict]
Prose == [kind |-> "prose", value |-> NotADict]
Json(value) == [kind |-> "json", value |-> value]

\* content[7:] / content[3:] and content[:-3]: the fences are cut off
StripFences(content) ==
    IF content # <<>> /\ Head(content).kind \in {"fence_json", "fence"}
    THEN LET rest == Tail(content)
         IN  IF rest # <<>> /\ rest[Len(rest)].kind = "fence"
             THEN SubSeq(rest, 1, Len(rest) - 1)
             ELSE rest
    ELSE content

\* json.loads(content.strip()) raises JSONDecodeError unless the text is
\* one JSON value
JsonDecodeError(content) ==
    ~(Len(StripFences(content)) = 1 /\ StripFences(content)[1].kind = "json")

\* generate_notification once llm.invoke has returned content
generate_notification(product_name, c, content) ==
    IF JsonDecodeError(content) THEN generate_notification_error(product_name, c)
    ELSE StripFences(content)[1].value

\* the JSON values the collaborator may give for client c: the record asked
\* for, one of another client, one without client_code, one with a key too
\* many, an empty object, and a JSON array
AnswerValues(c, p) ==
    {Dict(OutputFields, c, p, "text"),
     Dict(OutputFields, 0, p, "text"),
     Dict({"product", "push_notification"}, 0, p, "text"),
     Dict(OutputFields \cup {"extra"}, c, p, "text"),
     Dict({}, 0, "", ""),
     NotADict}
AnswerContents(c, p) ==
    UNION {{<<Json(v)>>, <<FenceJson, Json(v), Fence>>, <<Fence, Json(v), Fence>>,
            <<FenceJson, Json(v)>>, <<Prose, Json(v)>>} : v \in AnswerValues(c, p)}
        \cup {<< >>, <<Prose>>, <<Fence, Prose, Fence>>}

\* save_results_to_csv: DictWriter.writerow raises on a value that is no
\* dict (AttributeError) and on a dict with a key outside fieldnames
\* (ValueError); the rows before it stay in the file
RowRaises(result) == ~result.isDict \/ ~(result.keys \subseteq OutputFields)
CsvRow(result) ==
    [client_code |-> result.client_code, product |-> result.product,
     push_notification |-> result.push_notification]
FirstBadRow(list) ==
    IF \E i \in 1..Len(list) : RowRaises(list[i])
    THEN SetMin({i \in 1..Len(list) : RowRaises(list[i])})
    ELSE Len(list) + 1
save_results_to_csv(list) ==
    [rows |-> [i \in 1..(FirstBadRow(list) - 1) |-> CsvRow(list[i])],
     raised |-> FirstBadRow(list) <= Len(list)]

\* ---- __main__ and generate_all_notifications ----
Current == clients_data[idx]
NormalizedProduct == normalize_product_name(Current.product_type)
Bump(counts, i) == [counts EXCEPT ![i] = @ + 1]

\* An exception leaves generate_all_notifications.  The LLM-backed batch runs
\* inside the try block of __main__, whose except branch starts the
\* template batch over the whole list; the template batch runs in the
\* except branch itself, where nothing catches.
RaiseToMain(from) ==
    /\ lastError' = from
    /\ IF use_azure
       THEN /\ use_azure' = FALSE
            /\ idx' = 1
            /\ nresults' = <<>>
            /\ npc' = "loop"
       ELSE /\ npc' = "crashed"
            /\ UNCHANGED <<use_azure, idx, nresults>>

\* result = process_single_client(...); results.append(result)
AppendNotification(result) ==
    /\ nresults' = Append(nresults, result)
    /\ idx' = idx + 1
    /\ npc' = "loop"
    /\ UNCHANGED <<use_azure, lastError>>

\* get_azure_llm() succeeds: generate_all_notifications(use_azure=True)
StartAzureBatch ==
    /\ npc = "start"
    /\ azureAvailable
    /\ use_azure' = TRUE
    /\ idx' = 1
    /\ npc' = "loop"
    /\ UNCHANGED <<clients_data, azureAvailable, nresults, csvRows, csvOpens,
                   processed, written, lastError>>
    /\ UNCHANGED <<engineVars, product_data>>

\* get_azure_llm() raises ValueError: generate_all_notifications(use_azure=False)
StartTemplateBatch ==
    /\ npc = "start"
    /\ ~azureAvailable
    /\ use_azure' = FALSE
    /\ idx' = 1
    /\ npc' = "loop"
    /\ lastError' = "no_llm"
    /\ UNCHANGED <<clients_data, azureAvailable, nresults, csvRows, csvOpens,
                   processed, written>>
    /\ UNCHANGED <<engineVars, product_data>>

\* KeyError outside every try block: client_data['name'] or
\* client_data['client_code'] of the progress line, or
\* client_data['product_type'] at the top of process_single_client
LoopKeyError ==
    /\ npc = "loop"
    /\ idx <= Len(clients_data)
    /\ ~({"name", "client_code", "product_type"} \subseteq Current.present)
    /\ processed' = IF {"name", "client_code"} \subseteq Current.present
                    THEN Bump(processed, idx) ELSE processed
    /\ RaiseToMain("loop")
    /\ UNCHANGED <<clients_data, azureAvailable, csvRows, csvOpens, written>>
    /\ UNCHANGED <<engineVars, product_data>>

\* use_azure: extract_product_specific_data raises KeyError, caught by
\* process_single_client
ExtractError ==
    /\ npc = "loop"
    /\ idx <= Len(clients_data)
    /\ use_azure
    /\ {"name", "client_code", "product_type"} \subseteq Current.present
    /\ ~(ExtractFields \subseteq Current.present)
    /\ processed' = Bump(processed, idx)
    /\ AppendNotification(process_single_client_error(Current))
    /\ UNCHANGED <<clients_data, azureAvailable, csvRows, csvOpens, written>>
    /\ UNCHANGED <<engineVars, product_data>>

\* use_azure: llm.invoke(full_prompt) is sent
SendPrompt ==
    /\ npc = "loop"
    /\ idx <= Len(clients_data)
    /\ use_azure
    /\ {"product_type"} \cup ExtractFields \subseteq Current.present
    /\ processed' = Bump(processed, idx)
    /\ npc' = "awaiting"
    /\ UNCHANGED <<clients_data, azureAvailable, use_azure, idx, nresults, csvRows,
                   csvOpens, written, lastError>>
    /\ UNCHANGED <<engineVars, product_data>>

\* llm.invoke raises
NotifyLLMRaise ==
    /\ npc = "awaiting"
    /\ AppendNotification(
           generate_notification_error(NormalizedProduct, Current.client_code))
    /\ UNCHANGED <<clients_data, azureAvailable, csvRows, csvOpens, processed, written>>
    /\ UNCHANGED <<engineVars, product_data>>

\* llm.invoke returns content
NotifyLLMRespond ==
    /\ npc = "awaiting"
    /\ \E content \in AnswerContents(Current.client_code, NormalizedProduct) :
          AppendNotification(
              generate_notification(NormalizedProduct, Current.client_code, content))
    /\ UNCHANGED <<clients_data, azureAvailable, csvRows, csvOpens, processed, written>>
    /\ UNCHANGED <<engineVars, product_data>>

\* template branch: generate_template_notification returns a text
TemplateNotification ==
    /\ npc = "loop"
    /\ idx <= Len(clients_data)
    /\ ~use_azure
    /\ {"product_type"} \cup TemplateFields \subseteq Current.present
    /\ processed' = Bump(processed, idx)
    /\ AppendNotification(
           Dict(OutputFields, Current.client_code, Current.product_type, "text"))
    /\ UNCHANGED <<clients_data, azureAvailable, csvRows, csvOpens, written>>
    /\ UNCHANGED <<engineVars, product_data>>

\* template branch: a KeyError of the record, caught by process_single_client
TemplateError ==
    /\ npc = "loop"
    /\ idx <= Len(clients_data)
    /\ ~use_azure
    /\ {"name", "client_code", "product_type"} \subseteq Current.present
    /\ ~(TemplateFields \subseteq Current.present)
    /\ processed' = Bump(processed, idx)
    /\ AppendNotification(process_single_client_error(Current))
    /\ UNCHANGED <<clients_data, azureAvailable, csvRows, csvOpens, written>>
    /\ UNCHANGED <<engineVars, product_data>>

\* the loop is over: save_results_to_csv(results, output_csv_path)
SaveResults ==
    /\ npc = "loop"
    /\ idx > Len(clients_data)
    /\ LET saved == save_results_to_csv(nresults)
       IN  /\ csvRows' = saved.rows
           /\ csvOpens' = csvOpens + 1
           /\ written' = [i \in 1..Len(written) |->
                             IF i <= Len(saved.rows) THEN written[i] + 1 ELSE written[i]]
           /\ IF saved.raised
              THEN RaiseToMain("save")
              ELSE /\ npc' = "done"
                   /\ UNCHANGED <<use_azure, idx, nresults, lastError>>
    /\ UNCHANGED <<clients_data, azureAvailable, processed>>
    /\ UNCHANGED <<engineVars, product_data>>

InitNotify ==
    /\ clients_data \in InputFiles
    /\ azureAvailable \in BOOLEAN
    /\ npc = "start"
    /\ use_azure = FALSE
    /\ idx = 0
    /\ nresults = <<>>
    /\ csvRows = <<>>
    /\ csvOpens = 0
    /\ processed = [i \in 1..Len(clients_data) |-> 0]
    /\ written = [i \in 1..Len(clients_data) |-> 0]
    /\ lastError = "none"
    /\ product_data = <<>>

\* main() of classify_product.py is not running
EngineIdle ==
    /\ clients_df = <<>>
    /\ transactions_df = <<>>
    /\ transfers_df = <<>>
    /\ llm = FALSE
    /\ analyzer = FALSE
    /\ pc = "idle"
    /\ client_code = 0
    /\ profile = ErrorProfile
    /\ llmOutcome = "none"
    /\ response = <<>>
    /\ recommendations = EmptyDict
    /\ results = <<>>
    /\ outFile = <<>>
    /\ hashseed = <<"KZT", "USD", "EUR">>
    /\ loaded = NoFiles
    /\ llm_calls = 0

NotifyInit == EngineIdle /\ InitNotify
NotifyNext ==
    \/ StartAzureBatch
    \/ StartTemplateBatch
    \/ LoopKeyError
    \/ ExtractError
    \/ SendPrompt
    \/ NotifyLLMRaise
    \/ NotifyLLMRespond
    \/ TemplateNotification
    \/ TemplateError
    \/ SaveResults
NotifySpec == NotifyInit /\ [][NotifyNext]_vars

\* ---------------------------------------------------------------------------
\* extract_product_specific_data
\* ---------------------------------------------------------------------------
\* A record with the values the extractor reads.  'currencies' is an optional
\* key; the spending mappings are dicts of whole amounts.
ClientData(c, p, missing, cat, typ, bal, age, hasCurrencies, currencies) ==
    [present |-> (InputFields \cup (IF hasCurrencies THEN {"currencies"} ELSE {}))
                     \ missing,
     client_code |-> c, product_type |-> p,
     name |-> "name", status |-> "status", city |-> "city", age |-> age,
     avg_monthly_balance |-> bal,
     top_5_category_spending |-> cat, top_5_type_spending |-> typ,
     currencies |-> currencies]

Item(key, val) == [k |-> key, v |-> val]

\* month_names.get(current_month, 'avguste')
month_names(current_month) ==
    CASE current_month = "january" -> "yanvare"
      [] current_month = "february" -> "fevrale"
      [] current_month = "march" -> "marte"
      [] current_month = "april" -> "aprele"
      [] current_month = "may" -> "mae"
      [] current_month = "june" -> "iyune"
      [] current_month = "july" -> "iyule"
      [] current_month = "august" -> "avguste"
      [] current_month = "september" -> "sentyabre"
      [] current_month = "october" -> "oktyabre"
      [] current_month = "november" -> "noyabre"
      [] current_month = "december" -> "dekabre"
      [] OTHER -> "avguste"

\* a slip where the default of the currency collection is a foreign currency
CurrenciesOf_default_usd(client_data) ==
    IF "currencies" \in client_data.present THEN client_data.currencies ELSE <<"USD">>

\* client_data.get('currencies', ['KZT'])
CurrenciesOf(client_data) ==
    IF "currencies" \in client_data.present THEN client_data.currencies ELSE <<"KZT">>

\* a slip where the currency collection is left out of the shared fields
base_data_without_currencies(client_data) ==
    <<Item("client_code", client_data.client_code),
      Item("name", client_data.name),
      Item("status", client_data.status),
      Item("age", client_data.age),
      Item("city", client_data.city),
      Item("avg_monthly_balance_KZT", client_data.avg_monthly_balance)>>

base_data(client_data) ==
    <<Item("client_code", client_data.client_code),
      Item("name", client_data.name),
      Item("status", client_data.status),
      Item("age", client_data.age),
      Item("city", client_data.city),
      Item("avg_monthly_balance_KZT", client_data.avg_monthly_balance),
      Item("currencies", CurrenciesOf(client_data))>>

ForeignPlaceholder == "inostrannoi valyute"

\* the three categories of largest spend, with the defaults of the branch
TopCategory(category_spending, n, default) ==
    IF Len(category_spending) >= n THEN SortedDesc(category_spending)[n].k ELSE default

\* a slip where the quotient is rounded to the nearest integer
RoundDiv(x, d) ==
    IF x >= 0 THEN (x + d \div 2) \div d ELSE -((d \div 2 - x) \div d)

\* int(x / d): the quotient truncated towards zero
TruncDiv(x, d) == IF x >= 0 THEN x \div d ELSE -((-x) \div d)

\* the ten product names the branches compare the normalized name with
ExtractorProducts ==
    {"Karta dlya puteshestvii", "Premialnaya karta", "Kreditnaya karta",
     "Obmen valyut", "Kredit nalichnymi", "Depozit multivalyutnyi",
     "Depozit sberegatelnyi", "Depozit nakopitelnyi", "Investitsii",
     "Zolotye slitki"}

\* the fields a branch adds to base_data
branch_data(client_data, normalized_product_type, current_month) ==
    LET category_spending == client_data.top_5_category_spending
        type_spending == client_data.top_5_type_spending
        balance == client_data.avg_monthly_balance
        cat(key) == GetOr(category_spending, key, 0)
        typ(key) == GetOr(type_spending, key, 0)
    IN  CASE normalized_product_type = "Karta dlya puteshestvii" ->
               <<Item("taxi_rides_count", TruncDiv(cat("Taksi"), 2000)),
                 Item("taxi_spent_amount", cat("Taksi")),
                 Item("travel_spent_amount", cat("Puteshestviya")),
                 Item("hotels_spent_amount", cat("Oteli")),
                 Item("month", month_names(current_month))>>
          [] normalized_product_type = "Premialnaya karta" ->
               <<Item("restaurants_spent", cat("Kafe i restorany")),
                 Item("cosmetics_spent", cat("Kosmetika i Parfyumeriya")),
                 Item("jewelry_spent", cat("Yuvelirnye ukrasheniya")),
                 Item("atm_withdrawals_count", TruncDiv(typ("atm_withdrawal"), 50000)),
                 Item("transfers_count", TruncDiv(typ("p2p_out"), 100000))>>
          [] normalized_product_type = "Kreditnaya karta" ->
               <<Item("top_category_1",
                      TopCategory(category_spending, 1, "Produkty pitaniya")),
                 Item("top_category_2",
                      TopCategory(category_spending, 2, "Kafe i restorany")),
                 Item("top_category_3", TopCategory(category_spending, 3, "Taksi")),
                 Item("online_services_spent",
                      cat("Edim doma") + cat("Smotrim doma") + cat("Igraem doma")),
                 Item("installment_payments",
                      HasKey(type_spending, "installment_payment_out")),
                 Item("cc_repayments", HasKey(type_spending, "cc_repayment_out"))>>
          [] normalized_product_type = "Obmen valyut" ->
               LET client_currencies == CurrenciesOf(client_data)
                   foreign_currencies ==
                       SelectSeq(client_currencies, LAMBDA curr : curr # "KZT")
               IN  <<Item("fx_buy_count", TruncDiv(typ("fx_buy"), 1000000)),
                     Item("fx_sell_count", TruncDiv(typ("fx_sell"), 1000000)),
                     Item("main_foreign_currency",
                          IF foreign_currencies # <<>> THEN foreign_currencies[1]
                          ELSE ForeignPlaceholder)>>
          [] normalized_product_type = "Kredit nalichnymi" ->
               LET monthly_inflow == typ("salary_in")
                   monthly_outflow == typ("card_out")
               IN  <<Item("monthly_inflow", monthly_inflow),
                     Item("monthly_outflow", monthly_outflow),
                     Item("loan_payments_count", TruncDiv(typ("loan_payment_out"), 100000)),
                     Item("low_balance_days",
                          IF monthly_outflow * 10 > monthly_inflow * 12 THEN 15 ELSE 5),
                     Item("cash_need_indicators",
                          monthly_outflow * 10 > monthly_inflow * 11)>>
          [] normalized_product_type = "Depozit multivalyutnyi" ->
               <<Item("free_balance", Max(0, balance - 50000)),
                 Item("fx_activity_score", Min(10, TruncDiv(typ("fx_buy"), 500000))),
                 Item("foreign_spending", cat("Puteshestviya") + cat("Oteli")),
                 Item("deposit_fx_topup_count", TruncDiv(typ("deposit_fx_topup_out"), 200000)),
                 Item("deposit_fx_withdraw_count",
                      TruncDiv(typ("deposit_fx_withdraw_in"), 200000))>>
          [] normalized_product_type = "Depozit sberegatelnyi" ->
               <<Item("stable_balance", balance),
                 Item("spending_volatility", IF balance > 500000 THEN 3 ELSE 7),
                 Item("deposit_topup_count", TruncDiv(typ("deposit_topup_out"), 200000)),
                 Item("deposit_withdraw_count", 0),
                 Item("balance_stability_score", IF balance > 500000 THEN 9 ELSE 5)>>
          [] normalized_product_type = "Depozit nakopitelnyi" ->
               <<Item("regular_balance", balance),
                 Item("periodic_topups", typ("deposit_topup_out") > 0),
                 Item("topup_frequency", TruncDiv(typ("deposit_topup_out"), 100000)),
                 Item("savings_behavior_score",
                      IF typ("deposit_topup_out") > 500000 THEN 8 ELSE 4),
                 Item("small_regular_amounts", typ("deposit_topup_out") < 500000)>>
          [] normalized_product_type = "Investitsii" ->
               <<Item("available_funds", Max(0, balance - 100000)),
                 Item("invest_in_count", TruncDiv(typ("invest_in"), 200000)),
                 Item("invest_out_count", TruncDiv(typ("invest_out"), 200000)),
                 Item("investment_interest_score",
                      IF typ("invest_in") > 0 THEN 8 ELSE 3),
                 Item("risk_tolerance", IF client_data.age < 35 THEN 7 ELSE 5)>>
          [] normalized_product_type = "Zolotye slitki" ->
               <<Item("high_liquidity", balance > 1000000),
                 Item("gold_buy_count", TruncDiv(typ("gold_buy_out"), 500000)),
                 Item("gold_sell_count", TruncDiv(typ("gold_sell_in"), 500000)),
                 Item("jewelry_spent", cat("Yuvelirnye ukrasheniya")),
                 Item("value_preservation_interest",
                      IF typ("gold_buy_out") > 0 THEN 8 ELSE 5)>>
          [] OTHER -> <<>>

\* {**base_data, ...}: the keys of a branch are none of base_data's
extract_product_specific_data(client_data, product_type, current_month) ==
    base_data(client_data)
        \o branch_data(client_data, normalize_product_name(product_type), current_month)

\* ---- the records and clock the extractor is run on ----
ExtractProductTypes ==
    Products \cup {"Depozit multivalyutnyi", "", "Ipoteka", "premialnaya karta"}
ExtractCategorySpendings ==
    { <<>>,
      <<Item("Taksi", 150000), Item("Puteshestviya", 0)>>,
      <<Item("Oteli", 100000), Item("Kafe i restorany", 30000),
        Item("Produkty pitaniya", 20000), Item("Taksi", 1999)>>,
      <<Item("Taksi", -4100)>> }
ExtractTypeSpendings ==
    { <<>>,
      <<Item("fx_buy", 1200000), Item("card_out", 600000), Item("salary_in", 500000)>>,
      <<Item("gold_buy_out", 600000), Item("deposit_topup_out", 500000),
        Item("invest_in", 250000), Item("p2p_out", 250000),
        Item("atm_withdrawal", 120000)>> }
ExtractBalances == {30000, 700000, 1500000}
ExtractAges == {30, 40}
\* 'currencies' absent, or one of these lists
ExtractCurrencies == { <<>>, <<"KZT">>, <<"KZT", "USD">>, <<"EUR", "KZT", "USD">> }
ExtractMissing == { {}, {"status"}, {"top_5_type_spending"} }
ExtractInputs ==
    {ClientData(1, p, missing, cat, typ, bal, age, has, cur) :
        p \in ExtractProductTypes, missing \in ExtractMissing,
        cat \in ExtractCategorySpendings, typ \in ExtractTypeSpendings,
        bal \in ExtractBalances, age \in ExtractAges,
        has \in {TRUE}, cur \in ExtractCurrencies}
    \cup
    {ClientData(1, p, missing, cat, typ, bal, age, FALSE, <<>>) :
        p \in ExtractProductTypes, missing \in ExtractMissing,
        cat \in ExtractCategorySpendings, typ \in ExtractTypeSpendings,
        bal \in ExtractBalances, age \in ExtractAges}
\* datetime.now().strftime('%B').lower(): an English month name, or another
\* text under a non-English locale
CurrentMonths == {"january", "november", "listopad"}

\* use_azure branch of process_single_client: product_data =
\* extract_product_specific_data(client_data, product_type)
ExtractData ==
    /\ npc = "extract"
    /\ ExtractFields \subseteq Current.present
    /\ \E current_month \in CurrentMonths :
          product_data' =
              extract_product_specific_data(Current, Current.product_type, current_month)
    /\ npc' = "extracted"
    /\ UNCHANGED <<clients_data, azureAvailable, use_azure, idx, nresults, csvRows,
                   csvOpens, processed, written, lastError>>
    /\ UNCHANGED engineVars

\* the extractor raises KeyError on a key the record lacks; the except
\* branch of process_single_client returns the error record
ExtractKeyError ==
    /\ npc = "extract"
    /\ ~(ExtractFields \subseteq Current.present)
    /\ nresults' = Append(nresults, process_single_client_error(Current))
    /\ npc' = "extract_failed"
    /\ UNCHANGED <<clients_data, azureAvailable, use_azure, idx, csvRows, csvOpens,
                   processed, written, lastError, product_data>>
    /\ UNCHANGED engineVars

ExtractInit ==
    /\ EngineIdle
    /\ \E client_data \in ExtractInputs : clients_data = <<client_data>>
    /\ azureAvailable = TRUE
    /\ npc = "extract"
    /\ use_azure = TRUE
    /\ idx = 1
    /\ nresults = <<>>
    /\ csvRows = <<>>
    /\ csvOpens = 0
    /\ processed = <<1>>
    /\ written = <<0>>
    /\ lastError = "none"
    /\ product_data = <<>>
ExtractNext ==
    \/ ExtractData
    \/ ExtractKeyError
ExtractSpec == ExtractInit /\ [][ExtractNext]_vars

\* ---------------------------------------------------------------------------
\* Properties of the classification batch
\* ---------------------------------------------------------------------------
\* C1: when the engine has no LLM client or llm.invoke raises, classify_client
\* returns exactly the rule-based mapping of the same profile, and no
\* exception reaches main().
C1_FallbackOnLLMFailure ==
    llmOutcome \in {"unconfigured", "raised"} =>
        /\ recommendations = rule_based_classification(profile)
        /\ pc # "crashed"

C1_Witness ==
    /\ llmOutcome = "raised"
    /\ recommendations # EmptyDict

\* C2 as stated: content that cannot be parsed makes classify_client return
\* the rule-based mapping of the profile.
C2_UnparseableFallsBack ==
    (llmOutcome = "answered" /\ Unparseable(response)) =>
        recommendations = rule_based_classification(profile)

\* C2 amended: content that cannot be parsed (no braces, invalid JSON, or a
\* non-numeric score of a catalog product) makes classify_client return the
\* empty mapping, without an exception; the rule-based scorer is not used.
C2_UnparseableGivesEmpty ==
    (llmOutcome = "answered" /\ Unparseable(response)) =>
        /\ recommendations = EmptyDict
        /\ pc # "crashed"

C2_Witness ==
    /\ llmOutcome = "answered"
    /\ Unparseable(response)
    /\ HasJsonMatch(response)
    /\ rule_based_classification(profile) # EmptyDict
    /\ recommendations = EmptyDict

\* C3: the call has a bounded timeout: while it is outstanding main() can
\* always go on by itself (the timeout firing as an exception), whether or
\* not the collaborator ever answers.
C3_CallHasTimeout == pc = "awaiting" => ENABLED MainStep

C9_KeysInCatalog ==
    llmOutcome = "answered" => Keys(recommendations) \subseteq Products

\* C10: every numeric score of the mapping classify_client returns lies in
\* [0, 1].
C10_ScoresInUnitInterval ==
    llmOutcome # "none" =>
        \A i \in 1..Len(recommendations) :
            IsNum(recommendations[i].v) =>
                (recommendations[i].v.v >= 0 /\ recommendations[i].v.v <= 100)

\* ---------------------------------------------------------------------------
\* Properties of the notification batch
\* ---------------------------------------------------------------------------
\* C4: no failure on one client aborts the batch: no exception leaves the
\* loop of generate_all_notifications, every client passed has its record,
\* and the record of a client whose input lacks a field read by the
\* extractor carries an error placeholder.
C4_FailOpenPerClient ==
    /\ lastError # "loop"
    /\ npc \in {"loop", "awaiting"} => Len(nresults) = idx - 1
    /\ \A i \in 1..Len(nresults) :
          ~(ExtractFields \subseteq clients_data[i].present) =>
              /\ nresults[i].isDict
              /\ IsErrorPlaceholder(nresults[i].push_notification)

\* C6: in one run every client is handed to process_single_client at most
\* once and gets at most one row written, and the output file is opened for
\* writing at most once.
C6_AtMostOncePerClient ==
    /\ \A i \in 1..Len(clients_data) : processed[i] <= 1 /\ written[i] <= 1
    /\ csvOpens <= 1

\* C7: once the output file has been written it holds a row for every
\* collected record or no row at all, never a strict prefix.
C7_NoPartialFile ==
    csvOpens > 0 => (csvRows = <<>> \/ Len(csvRows) = Len(clients_data))

\* C8: every record returned by process_single_client is a dict of exactly
\* client_code, product and push_notification, with the client_code of the
\* input record.
C8_ThreeFieldRecords ==
    \A i \in 1..Len(nresults) :
        /\ nresults[i].isDict
        /\ nresults[i].keys = OutputFields
        /\ nresults[i].client_code = clients_data[i].client_code

\* ---------------------------------------------------------------------------
\* Properties of the rule-based scorer, the selector and the profile lookup
\* ---------------------------------------------------------------------------
\* C11 as stated: the rule-based strategy never raises and never returns an
\* empty mapping for a profile that carries a balance value.
C11_RuleBasedNeverEmpty ==
    llmOutcome \in {"unconfigured", "raised"} =>
        /\ pc # "crashed"
        /\ recommendations # EmptyDict

\* C11 amended: the rule-based strategy never raises; its mapping is
\* non-empty for every profile with a balance above 1,000,000, and it is
\* the empty mapping only when the balance is at most 1,000,000.
C11_RuleBasedNonEmptyAboveBand ==
    llmOutcome \in {"unconfigured", "raised"} =>
        /\ pc # "crashed"
        /\ profile.avg_monthly_balance_KZT > 1000000 => recommendations # EmptyDict
        /\ Keys(recommendations) \subseteq Products
C11_Witness ==
    /\ llmOutcome = "unconfigured"
    /\ profile.avg_monthly_balance_KZT = 1500000
    /\ profile.category_spending = EmptyDict
    /\ Keys(recommendations) = {"Premialnaya karta", "Depozit Nakopitelnyi"}

\* C12: for a profile with balance above 6,000,000 and no transaction or
\* transfer rows the rule-based scorer yields exactly Premium card 0.9,
\* Savings deposit 0.8, Investments 0.7 and Gold bars 0.6, and the selector
\* with threshold 0.5 picks the Premium card.
C12_HighBalanceScenario ==
    (/\ llmOutcome \in {"unconfigured", "raised"}
     /\ profile.avg_monthly_balance_KZT > 6000000
     /\ RowsOf(transactions_df, profile.client_info.client_code) = <<>>
     /\ RowsOf(transfers_df, profile.client_info.client_code) = <<>>) =>
        /\ Len(recommendations) = 4
        /\ Keys(recommendations) =
               {"Premialnaya karta", "Depozit Sberegatelnyi", "Investitsii",
                "Zolotye slitki"}
        /\ Get(recommendations, "Premialnaya karta") = Num(90)
        /\ Get(recommendations, "Depozit Sberegatelnyi") = Num(80)
        /\ Get(recommendations, "Investitsii") = Num(70)
        /\ Get(recommendations, "Zolotye slitki") = Num(60)
        /\ select_product_type(recommendations, DefaultThreshold) = "Premialnaya karta"
        /\ results[Len(results)].product_type = "Premialnaya karta"
C12_Witness ==
    /\ llmOutcome = "raised"
    /\ profile.avg_monthly_balance_KZT = 7000000
    /\ transactions_df = <<>>
    /\ transfers_df = <<>>
    /\ Len(recommendations) = 4
    /\ results # <<>>

\* C13: with the LLM strategy disabled, a client whose category spending is
\* taxi 150000 and travel 0, and for whom no balance-band, currency-count,
\* diversity or spend-ratio rule fires, gets the empty mapping from the
\* scorer and the empty string as chosen product.
C13_TaxiScenario ==
    (/\ llmOutcome = "unconfigured"
     /\ Keys(profile.category_spending) = {"Taksi", "Puteshestviya"}
     /\ Get(profile.category_spending, "Taksi") = 150000
     /\ Get(profile.category_spending, "Puteshestviya") = 0
     /\ profile.avg_monthly_balance_KZT <= 1000000
     /\ Len(profile.currencies_used) <= 2
     /\ profile.spending_patterns.category_diversity <= 5
     /\ ~(/\ profile.avg_monthly_balance_KZT < 500000
          /\ profile.spending_patterns.total_spending
                 > profile.avg_monthly_balance_KZT * 2)) =>
        /\ recommendations = EmptyDict
        /\ pc # "crashed"
        /\ results[Len(results)].client_code = profile.client_info.client_code
        /\ results[Len(results)].product_type = ""
C13_Witness ==
    /\ llmOutcome = "unconfigured"
    /\ Keys(profile.category_spending) = {"Taksi", "Puteshestviya"}
    /\ Get(profile.category_spending, "Taksi") = 150000
    /\ Get(profile.category_spending, "Puteshestviya") = 0
    /\ profile.avg_monthly_balance_KZT = 300000
    /\ recommendations = EmptyDict
    /\ results # <<>>

\* C14: whenever at least one recommendation has a score at or above the
\* threshold, the chosen product_type is a key of the mapping whose score is
\* at or above the threshold, and no entry has a strictly greater score.
C14_ChosenIsMaxAboveThreshold ==
    (/\ llmOutcome # "none"
     /\ pc # "crashed"
     /\ \E i \in 1..Len(recommendations) : recommendations[i].v.v >= MainThreshold) =>
        \E i \in 1..Len(recommendations) :
            /\ recommendations[i].k = results[Len(results)].product_type
            /\ recommendations[i].v.v >= MainThreshold
            /\ \A j \in 1..Len(recommendations) :
                   recommendations[j].v.v <= recommendations[i].v.v
C14_Witness ==
    /\ llmOutcome = "answered"
    /\ pc # "crashed"
    /\ Len(recommendations) = 2
    /\ \E i, j \in 1..2 :
          /\ recommendations[i].v.v = MainThreshold
          /\ recommendations[j].v.v < MainThreshold
          /\ results[Len(results)].product_type = recommendations[i].k

\* C15: when no recommendation reaches the threshold but the mapping is
\* non-empty, the chosen product is a key of the mapping with the globally
\* maximal score; when the mapping is empty it is the empty string; it is
\* never a name absent from the mapping.
C15_ArgmaxFallback ==
    (llmOutcome # "none" /\ pc # "crashed") =>
        LET chosen == results[Len(results)].product_type
        IN  /\ recommendations = EmptyDict => chosen = ""
            /\ recommendations # EmptyDict => chosen \in Keys(recommendations)
            /\ (/\ recommendations # EmptyDict
                /\ \A i \in 1..Len(recommendations) :
                       recommendations[i].v.v < MainThreshold) =>
                   \A j \in 1..Len(recommendations) :
                       recommendations[j].v.v <= Get(recommendations, chosen).v
C15_Witness ==
    /\ llmOutcome = "answered"
    /\ pc # "crashed"
    /\ recommendations # EmptyDict
    /\ \A i \in 1..Len(recommendations) : recommendations[i].v.v < MainThreshold
    /\ results[Len(results)].product_type \in Keys(recommendations)

\* C16: for a client_code with no row in the client table the profile
\* lookup gives the not-found error value, and get_recommendations hands it
\* back without invoking the scorer and without raising: the step of the
\* batch at such a client makes no LLM call, computes no mapping and adds
\* no record.
C16_UnknownClientNoScorer ==
    [][(/\ pc = "loop"
        /\ client_code <= BatchSize
        /\ RowsOf(clients_df, client_code) = <<>>) =>
           /\ CurrentProfile = ErrorProfile
           /\ profile' = ErrorProfile
           /\ llmOutcome' = "none"
           /\ recommendations' = EmptyDict
           /\ results' = results
           /\ pc' = "loop"
           /\ client_code' = client_code + 1]_vars
C16_Witness ==
    /\ pc = "loop"
    /\ client_code = BatchSize + 1
    /\ RowsOf(clients_df, BatchSize) = <<>>
    /\ profile = ErrorProfile
    /\ llmOutcome = "none"
    /\ Len(results) = BatchSize - 1

\* ---------------------------------------------------------------------------
\* Properties of extract_product_specific_data
\* ---------------------------------------------------------------------------
\* the keys of base_data, and the keys each branch adds for a catalog product
BaseFieldNames ==
    {"client_code", "name", "status", "age", "city", "avg_monthly_balance_KZT",
     "currencies"}
BranchFieldNames(product) ==
    CASE product = "Karta dlya puteshestvii" ->
           {"taxi_rides_count", "taxi_spent_amount", "travel_spent_amount",
            "hotels_spent_amount", "month"}
      [] product = "Premialnaya karta" ->
           {"restaurants_spent", "cosmetics_spent", "jewelry_spent",
            "atm_withdrawals_count", "transfers_count"}
      [] product = "Kreditnaya karta" ->
           {"top_category_1", "top_category_2", "top_category_3",
            "online_services_spent", "installment_payments", "cc_repayments"}
      [] product = "Obmen valyut" ->
           {"fx_buy_count", "fx_sell_count", "main_foreign_currency"}
      [] product = "Kredit nalichnymi" ->
           {"monthly_inflow", "monthly_outflow", "loan_payments_count",
            "low_balance_days", "cash_need_indicators"}
      [] product = "Depozit Multivalyutnyi" ->
           {"free_balance", "fx_activity_score", "foreign_spending",
            "deposit_fx_topup_count", "deposit_fx_withdraw_count"}
      [] product = "Depozit Sberegatelnyi" ->
           {"stable_balance", "spending_volatility", "deposit_topup_count",
            "deposit_withdraw_count", "balance_stability_score"}
      [] product = "Depozit Nakopitelnyi" ->
           {"regular_balance", "periodic_topups", "topup_frequency",
            "savings_behavior_score", "small_regular_amounts"}
      [] product = "Investitsii" ->
           {"available_funds", "invest_in_count", "invest_out_count",
            "investment_interest_score", "risk_tolerance"}
      [] product = "Zolotye slitki" ->
           {"high_liquidity", "gold_buy_count", "gold_sell_count", "jewelry_spent",
            "value_preservation_interest"}

\* C17 as stated: for each of the ten canonical product names the extractor
\* returns a mapping whose key set is exactly the shared base fields plus
\* the fields the product branch table of the specification names for that
\* product (the set 'named' below), no more and no less.
C17_KeysAsInBranchTable ==
    (npc = "extracted" /\ clients_data[1].product_type \in Products) =>
        LET product == clients_data[1].product_type
            named ==
              CASE product = "Karta dlya puteshestvii" -> {"taxi_rides_count", "month"}
                [] product = "Premialnaya karta" ->
                     {"restaurants_spent", "cosmetics_spent", "jewelry_spent",
                      "atm_withdrawals_count", "transfers_count"}
                [] product = "Kreditnaya karta" ->
                     {"top_category_1", "top_category_2", "top_category_3",
                      "online_services_spent", "installment_payments",
                      "cc_repayments"}
                [] product = "Obmen valyut" ->
                     {"fx_buy_count", "fx_sell_count", "main_foreign_currency"}
                [] product = "Kredit nalichnymi" ->
                     {"monthly_inflow", "monthly_outflow", "loan_payments_count",
                      "low_balance_days", "cash_need_indicators"}
                [] product = "Depozit Multivalyutnyi" ->
                     {"free_balance", "fx_activity_score", "foreign_spending"}
                [] product = "Depozit Sberegatelnyi" ->
                     {"stable_balance", "spending_volatility",
                      "balance_stability_score"}
                [] product = "Depozit Nakopitelnyi" ->
                     {"regular_balance", "periodic_topups", "topup_frequency",
                      "savings_behavior_score"}
                [] product = "Investitsii" ->
                     {"available_funds", "invest_in_count", "invest_out_count",
                      "investment_interest_score", "risk_tolerance"}
                [] product = "Zolotye slitki" ->
                     {"high_liquidity", "gold_buy_count", "gold_sell_count",
                      "value_preservation_interest"}
        IN  Keys(product_data) = BaseFieldNames \cup named

\* C17 amended: for each of the ten catalog product names, and for the
\* lower-case spelling of a deposit name, the extractor returns a mapping
\* with unique keys whose key set is exactly the seven shared base fields
\* plus the fixed field set of that product's branch, whatever the record's
\* values.
C17_KeysAsInBranch ==
    npc = "extracted" =>
        LET product == clients_data[1].product_type
        IN  /\ product \in Products =>
                  /\ Keys(product_data) = BaseFieldNames \cup BranchFieldNames(product)
                  /\ Len(product_data) = Cardinality(Keys(product_data))
            /\ product = "Depozit multivalyutnyi" =>
                  Keys(product_data) =
                      BaseFieldNames \cup BranchFieldNames("Depozit Multivalyutnyi")
C17_Witness ==
    /\ npc = "extracted"
    /\ clients_data[1].product_type = "Depozit Multivalyutnyi"
    /\ Len(product_data) = 12
    /\ HasKey(product_data, "deposit_fx_topup_count")

\* C18: for every product name that is not one of the ten canonical names
\* after normalization, the empty string included, the extractor returns
\* exactly the base fields, and it raises no error on a record that carries
\* the fields it reads.
C18_UnknownProductBaseOnly ==
    (/\ npc \in {"extract", "extracted", "extract_failed"}
     /\ normalize_product_name(clients_data[1].product_type) \notin ExtractorProducts) =>
        /\ npc = "extracted" =>
              /\ Keys(product_data) = BaseFieldNames
              /\ Len(product_data) = 7
        /\ npc = "extract_failed" =>
              ~(ExtractFields \subseteq clients_data[1].present)
        /\ (npc = "extract" /\ ExtractFields \subseteq clients_data[1].present) =>
              ENABLED ExtractData
C18_Witness ==
    /\ npc = "extracted"
    /\ clients_data[1].product_type = ""
    /\ Keys(product_data) = BaseFieldNames

\* C19: currency-exchange extraction for a client whose currency collection
\* holds only KZT, or is absent, yields the generic placeholder as
\* main_foreign_currency; main_foreign_currency is never KZT, and it is a
\* specific currency code only if that code is in the client's collection.
C19_MainForeignCurrency ==
    (npc = "extracted" /\ clients_data[1].product_type = "Obmen valyut") =>
        LET main == Get(product_data, "main_foreign_currency")
            given == "currencies" \in clients_data[1].present
            held == clients_data[1].currencies
        IN  /\ main # "KZT"
            /\ (~given \/ \A i \in 1..Len(held) : held[i] = "KZT") =>
                   main = ForeignPlaceholder
            /\ main # ForeignPlaceholder =>
                   given /\ \E i \in 1..Len(held) : held[i] = main
C19_Witness ==
    /\ npc = "extracted"
    /\ clients_data[1].product_type = "Obmen valyut"
    /\ "currencies" \notin clients_data[1].present
    /\ Get(product_data, "main_foreign_currency") = ForeignPlaceholder

\* C20: travel-card extraction computes taxi_rides_count as the taxi
\* category spend divided by 2000, truncated to an integer, for every
\* non-negative taxi spend; a spend of 150000 gives 75 and an absent taxi
\* category gives 0.
C20_TaxiRides ==
    (npc = "extracted" /\ clients_data[1].product_type = "Karta dlya puteshestvii") =>
        LET spending == clients_data[1].top_5_category_spending
            taxi == IF HasKey(spending, "Taksi") THEN Get(spending, "Taksi") ELSE 0
            rides == Get(product_data, "taxi_rides_count")
        IN  /\ taxi >= 0 => (rides * 2000 <= taxi /\ taxi < (rides + 1) * 2000)
            /\ taxi = 150000 => rides = 75
            /\ ~HasKey(spending, "Taksi") => rides = 0
C20_Witness ==
    /\ npc = "extracted"
    /\ clients_data[1].product_type = "Karta dlya puteshestvii"
    /\ HasKey(clients_data[1].top_5_category_spending, "Taksi")
    /\ Get(clients_data[1].top_5_category_spending, "Taksi") = 150000
    /\ Get(product_data, "taxi_rides_count") = 75

\* ---------------------------------------------------------------------------
\* Properties of the scorer as a function, and of the rule order
\* ---------------------------------------------------------------------------
\* a step of the batch in which _rule_based_classification runs: the engine
\* has no client, or the outstanding call raises
ScorerStep ==
    \/ pc = "awaiting" /\ llmOutcome' = "raised"
    \/ pc = "loop" /\ client_code <= BatchSize /\ llmOutcome' = "unconfigured"

C24_LaterRuleOverwrites ==
    (/\ llmOutcome \in {"unconfigured", "raised"}
     /\ PatternGet(profile.spending_patterns, "category_diversity") > 5) =>
        IF /\ profile.avg_monthly_balance_KZT < 500000
           /\ PatternGet(profile.spending_patterns, "total_spending")
                  > profile.avg_monthly_balance_KZT * 2
        THEN /\ Get(recommendations, "Kreditnaya karta") = Num(75)
             /\ Get(recommendations, "Kredit nalichnymi") = Num(60)
        ELSE Get(recommendations, "Kreditnaya karta") = Num(70)
C24_Witness ==
    /\ llmOutcome = "raised"
    /\ profile.spending_patterns.category_diversity = 6
    /\ profile.avg_monthly_balance_KZT = 300000
    /\ profile.spending_patterns.total_spending = 2100000
    /\ Get(recommendations, "Kreditnaya karta") = Num(75)

\* ---------------------------------------------------------------------------
\* Properties of the record get_recommendations returns
\* ---------------------------------------------------------------------------
\* top5 holds min(5, n) entries of the mapping, in descending value order,
\* and no entry left out is larger than an entry kept
IsTop5Of(top5, spending) ==
    /\ Len(top5) = Min(5, Len(spending))
    /\ \A i \in 1..Len(top5) :
          HasKey(spending, top5[i].k) /\ Get(spending, top5[i].k) = top5[i].v
    /\ Cardinality(Keys(top5)) = Len(top5)
    /\ \A i \in 1..(Len(top5) - 1) : top5[i].v >= top5[i + 1].v
    /\ \A j \in 1..Len(spending) :
          spending[j].k \notin Keys(top5) =>
              \A i \in 1..Len(top5) : spending[j].v <= top5[i].v

ApiFiles ==
    {<<ct, logs[1], logs[2]>> :
        ct \in {ClientTable(1..BatchSize, [c \in 1..BatchSize |-> 300000]),
                ClientTable({1}, [c \in 1..BatchSize |-> 1500000])},
        logs \in EventLogs}

\* how the LLM strategy of a classify_client call can end
ApiOutcomes ==
    IF llm
    THEN {Raises, Answers(<< >>),
          Answers(<<OpenTok, Entry("Investitsii", Num(40)), CloseTok>>)}
    ELSE {Unconfigured}

\* api.load_data(...), at any time and any number of times
ApiLoadData ==
    /\ \E files \in ApiFiles : LoadData(files)
    /\ pc' = "loaded"
    /\ UNCHANGED <<client_code, profile, llmOutcome, response, recommendations,
                   results, outFile, llm_calls>>
    /\ UNCHANGED notifyVars

\* The program is started again and load_data is called on the same files:
\* the tables read are the same, the string-hash seed is drawn anew.
NewProcess ==
    /\ analyzer
    /\ hashseed' \in HashSeeds \ {hashseed}
    /\ UNCHANGED <<clients_df, transactions_df, transfers_df, loaded, llm, analyzer,
                   pc, client_code, profile, llmOutcome, response, recommendations,
                   results, outFile, llm_calls>>
    /\ UNCHANGED notifyVars

\* analyzer.get_comprehensive_client_profile(c)
GetProfile(c) ==
    /\ analyzer
    /\ profile' = get_comprehensive_client_profile(clients_df, transactions_df,
                                                   transfers_df, c)
    /\ client_code' = c
    /\ pc' = "profiled"
    /\ UNCHANGED <<tableVars, llm, analyzer, llmOutcome, response, recommendations,
                   results, outFile, llm_calls>>
    /\ UNCHANGED notifyVars

\* api.get_recommendations(c): the data-not-loaded error, the not-found
\* error, or the record built from the profile and the scorer's mapping
GetRecommendations(c) ==
    /\ client_code' = c
    /\ IF ~analyzer
       THEN /\ pc' = "not_loaded"
            /\ UNCHANGED <<profile, llmOutcome, response, recommendations, results,
                           llm_calls>>
       ELSE LET client_profile ==
                    get_comprehensive_client_profile(clients_df, transactions_df,
                                                     transfers_df, c)
            IN  /\ profile' = client_profile
                /\ IF client_profile.error
                   THEN /\ pc' = "not_found"
                        /\ UNCHANGED <<llmOutcome, response, recommendations,
                                       results, llm_calls>>
                   ELSE \E outcome \in ApiOutcomes :
                          LET recs == classify_client(client_profile, outcome)
                          IN  /\ llmOutcome' = outcome.kind
                              /\ response' = outcome.text
                              /\ recommendations' = recs
                              /\ llm_calls' = llm_invocations(outcome)
                              /\ IF SelectorRaises(recs)
                                 THEN pc' = "raised" /\ UNCHANGED results
                                 ELSE /\ pc' = "returned"
                                      /\ results' =
                                            <<MainRecord(c, get_recommendations(
                                                client_profile, recs, DefaultThreshold))>>
    /\ UNCHANGED <<tableVars, llm, analyzer, outFile>>
    /\ UNCHANGED notifyVars

ApiInit ==
    /\ clients_df = <<>>
    /\ transactions_df = <<>>
    /\ transfers_df = <<>>
    /\ hashseed \in HashSeeds
    /\ loaded = NoFiles
    /\ llm_calls = 0
    /\ llm \in BOOLEAN
    /\ analyzer = FALSE
    /\ pc = "new"
    /\ client_code = 0
    /\ profile = ErrorProfile
    /\ llmOutcome = "none"
    /\ response = <<>>
    /\ recommendations = EmptyDict
    /\ results = <<>>
    /\ outFile = <<>>
    /\ NotifyIdle
ApiNext ==
    \/ ApiLoadData
    \/ NewProcess
    \/ \E c \in 1..BatchSize : GetProfile(c)
    \/ \E c \in 1..BatchSize : GetRecommendations(c)
ApiSpec == ApiInit /\ [][ApiNext]_vars

\* C22: the profile built for a client equals the profile built again for
\* the same client from the same tables: whenever the last call built a
\* profile and the tables are as they were, a second build gives the stored
\* value, the order of currencies_used included.
C22_ProfileRebuiltIdentical ==
    pc = "profiled" =>
        profile = get_comprehensive_client_profile(clients_df, transactions_df,
                                                   transfers_df, client_code)

\* C23: for every client id with no matching rows get_category_spending and
\* get_type_spending return the empty mapping and get_currencies_used the
\* empty list, without error; every aggregate is the aggregate of the rows
\* whose client_code matches, so that rows of other clients never change it;
\* and the profile built by the analyzer carries these aggregates.
C23_AggregatesOfOwnRows ==
    analyzer =>
        /\ \A c \in 1..(BatchSize + 1) :
              LET own(df) == SelectSeq(df, LAMBDA r : r.client_code = c)
              IN  /\ get_category_spending(transactions_df, c)
                        = get_category_spending(own(transactions_df), c)
                  /\ get_type_spending(transfers_df, c)
                        = get_type_spending(own(transfers_df), c)
                  /\ get_currencies_used(transactions_df, transfers_df, c)
                        = get_currencies_used(own(transactions_df), own(transfers_df), c)
                  /\ own(transactions_df) = <<>> =>
                        get_category_spending(transactions_df, c) = EmptyDict
                  /\ own(transfers_df) = <<>> =>
                        get_type_spending(transfers_df, c) = EmptyDict
                  /\ (own(transactions_df) = <<>> /\ own(transfers_df) = <<>>) =>
                        get_currencies_used(transactions_df, transfers_df, c) = <<>>
        /\ (pc = "profiled" /\ ~profile.error) =>
              LET mine(df) == SelectSeq(df, LAMBDA r : r.client_code = client_code)
              IN  /\ profile.category_spending
                        = get_category_spending(mine(transactions_df), client_code)
                  /\ profile.type_spending
                        = get_type_spending(mine(transfers_df), client_code)
                  /\ mine(transfers_df) = <<>> => profile.type_spending = EmptyDict
C23_Witness ==
    /\ pc = "profiled"
    /\ ~profile.error
    /\ client_code = 2
    /\ transfers_df # <<>>
    /\ profile.type_spending = EmptyDict
    /\ Len(profile.category_spending) = 6
    /\ profile.currencies_used = <<"KZT">>

\* a step in which get_recommendations is called and returns or raises
RecommendStep ==
    /\ pc' \in {"not_loaded", "not_found", "returned", "raised"}
    /\ hashseed' = hashseed

\* C30: get_recommendations called before load_data has ever been called
\* returns the data-not-loaded error value, builds no profile and invokes no
\* scorer; after any load_data call every get_recommendations call analyses
\* the tables of the most recent load_data call.
C30_AnalysesLatestLoad ==
    [][/\ analyzer' <=> (loaded' # NoFiles)
       /\ RecommendStep =>
             IF loaded = NoFiles
             THEN /\ pc' = "not_loaded"
                  /\ UNCHANGED <<profile, llmOutcome, response, recommendations,
                                 results, llm_calls, analyzer>>
             ELSE /\ pc' # "not_loaded"
                  /\ profile' = get_comprehensive_client_profile(
                                    loaded[1], loaded[2], loaded[3], client_code')
                  /\ pc' = "returned" =>
                        /\ recommendations' \in
                              {classify_client(profile', outcome) : outcome \in ApiOutcomes}
                        /\ results'[1].avg_monthly_balance
                              = RowsOf(loaded[1], client_code')[1].avg_monthly_balance_KZT]_vars
C30_Witness ==
    /\ pc = "not_loaded"
    /\ ~analyzer
    /\ loaded = NoFiles
    /\ client_code = BatchSize
    /\ profile = ErrorProfile
    /\ results = <<>>
    /\ llm_calls = 0

\* ---------------------------------------------------------------------------
\* The two programs run one after the other
\* ---------------------------------------------------------------------------
\* json.load of a record main() has written: it holds client_code and the
\* four keys get_recommendations returns
load_client_data(file) ==
    [i \in 1..Len(file) |->
        InputRecord(file[i].client_code, file[i].product_type,
                    {"name", "status", "age", "city"})]

\* __main__ of azure_notification_generator.py is started on the file that
\* main() of classify_product.py has written
RunNotifier ==
    /\ pc = "done"
    /\ npc = "idle"
    /\ clients_data' = load_client_data(outFile)
    /\ azureAvailable' \in BOOLEAN
    /\ npc' = "start"
    /\ processed' = [i \in 1..Len(outFile) |-> 0]
    /\ written' = [i \in 1..Len(outFile) |-> 0]
    /\ UNCHANGED <<use_azure, idx, nresults, csvRows, csvOpens, lastError, product_data>>
    /\ UNCHANGED engineVars

\* the classification batch on an engine without LLM client, then the
\* notification batch
PipelineInit == Init /\ ~llm
PipelineNext ==
    \/ load_data
    \/ SkipUnknownClient
    \/ ClassifyUnconfigured
    \/ WriteOutput
    \/ RunNotifier
    \/ StartAzureBatch
    \/ StartTemplateBatch
    \/ LoopKeyError
    \/ SaveResults
PipelineSpec == PipelineInit /\ [][PipelineNext]_vars

\* C26: through the pipeline, a client whose currencies_used holds a
\* currency other than KZT and whose chosen product is Currency exchange
\* gets a main_foreign_currency that is one of the non-KZT currencies the
\* client holds: once the notification batch is over, the extractor has
\* produced that field for the client.
C26_ForeignCurrencyThroughPipeline ==
    npc \in {"done", "crashed"} =>
        \A i \in 1..Len(clients_data) :
            LET held == get_currencies_used(transactions_df, transfers_df,
                                            clients_data[i].client_code)
                foreign == {held[j] : j \in 1..Len(held)} \ {"KZT"}
            IN  (clients_data[i].product_type = "Obmen valyut" /\ foreign # {}) =>
                    /\ HasKey(product_data, "main_foreign_currency")
                    /\ Get(product_data, "main_foreign_currency") \in foreign

\* ---------------------------------------------------------------------------
\* Properties of the product names and of the scores of the extractor
\* ---------------------------------------------------------------------------
\* C27: every name of the ten-product catalog is canonicalized to a name the
\* extractor has a branch for, and the record of such a product gets the
\* fields of its own branch, never the base fields alone; normalization is
\* idempotent and leaves the ten canonical names unchanged.
C27_CatalogNamesDispatch ==
    /\ \A p \in Products :
          /\ normalize_product_name(p) \in ExtractorProducts
          /\ \A q \in Products :
                normalize_product_name(p) = normalize_product_name(q) => p = q
    /\ \A p \in ExtractProductTypes \cup ExtractorProducts :
          normalize_product_name(normalize_product_name(p)) = normalize_product_name(p)
    /\ \A p \in ExtractorProducts : normalize_product_name(p) = p
    /\ (npc = "extracted" /\ clients_data[1].product_type \in Products) =>
          LET product == clients_data[1].product_type
              added == SubSeq(product_data, Len(base_data(clients_data[1])) + 1,
                              Len(product_data))
          IN  /\ added # <<>>
              /\ Keys(added) = BranchFieldNames(product)
C27_Witness ==
    /\ npc = "extracted"
    /\ clients_data[1].product_type = "Depozit Sberegatelnyi"
    /\ HasKey(product_data, "balance_stability_score")
    /\ ~HasKey(product_data, "savings_behavior_score")

\* the fields commented as scores on a 1-10 scale
ScoreFields ==
    {"fx_activity_score", "spending_volatility", "balance_stability_score",
     "savings_behavior_score", "investment_interest_score", "risk_tolerance",
     "value_preservation_interest"}

\* C28: every extractor field described as a 1-10 scale score is an integer
\* between 1 and 10 inclusive, for every non-negative balance, age and spend.
C28_ScoresBetween1And10 ==
    npc = "extracted" =>
        \A i \in 1..Len(product_data) :
            product_data[i].k \in ScoreFields =>
                (product_data[i].v >= 1 /\ product_data[i].v <= 10)

====
